---- MODULE Spec2Model ----
(***************************************************************************)
(* Model of src/server.js (perfect-pixel-api).                             *)
(*                                                                         *)
(* Six specifications share this module:                                   *)
(*   Spec      the HTTP server: the /api/compare and /api/inspect handlers *)
(*             (one step per segment between two awaits), the browser      *)
(*             sessions they launch, resultsStore, GET /api/result/:id,    *)
(*             the clock and the setInterval sweep;                        *)
(*   SpecImage the synchronous image tail of /api/compare on concrete      *)
(*             pixel buffers: pixelmatch, the statistics, analyzeRegions;  *)
(*   SpecCell  the per-cell arithmetic of analyzeRegions (toFixed,         *)
(*             parseFloat, getSeverity) on every count up to a bound;      *)
(*   SpecView  the viewport of /api/compare: parseInt and the caps, the    *)
(*             capture mode, the comparison dimensions, stats.viewport;    *)
(*   SpecError the catch block of /api/compare on the messages thrown;     *)
(*   SpecStats the percentages of result.stats on real pixel counts.       *)
(***************************************************************************)
EXTENDS Integers, Sequences, FiniteSets, TLC

(***************************************************************************)
(* Bounds of the model.                                                    *)
(***************************************************************************)
\* requests the clients send in one run
MaxReqs == 2
\* clock ticks of one run
MaxTicks == 4
\* distinct values of the random suffix of a result id
MaxSuffix == 2
\* largest width and height of the images compared in SpecImage
MaxDim == 8
\* most pixels in which the screenshot differs from the design, unless all do
MaxDiff == 2
\* most pixels of the cell measured in SpecCell
MaxCellPixels == 100
\* most pixels by which a page is wider or taller than the viewport
MaxOverflow == 1
\* most mismatched pixels of the comparisons of SpecStats
MaxMismatched == 4

(***************************************************************************)
(* Program constants.                                                      *)
(***************************************************************************)
\* retention window, minutes: 30 * 60 * 1000 ms in the sweep's test
RetentionMin == 30
\* period of the sweep, minutes: 30 * 60 * 1000 ms given to setInterval
SweepIntervalMin == 30
\* the clock advances in steps of half a sweep period
TickMin == SweepIntervalMin \div 2
\* the extra delay after the load-event retry, ms
FallbackDelayMs == 3000
\* the settle delay before the screenshot, ms
SettleDelayMs == 2000

VARIABLES
  now,           \* Date.now(), in minutes since the server started
  nextSweep,     \* when the setInterval timer is due next
  sweptAt,       \* the times at which the sweep has run
  resultsStore,  \* the Map: result id -> result
  req,           \* per request: the handler's locals, position and response
  getResp,       \* the latest GET /api/result/:id: the status sent and, with
                 \* a result, its age at that moment and whose it is
  img,           \* SpecImage: the buffers and values of one comparison
  cell,          \* SpecCell: one grid cell and the region made of it
  view,          \* SpecView: the viewport, capture mode and dimensions of one
                 \* comparison
  fault,         \* SpecError: one caught error and the response made of it
  tally          \* SpecStats: the pixel counts and percentages of one result

server == <<now, nextSweep, sweptAt, resultsStore, req, getResp>>
vars == <<now, nextSweep, sweptAt, resultsStore, req, getResp, img, cell,
          view, fault, tally>>

Reqs == 1..MaxReqs
Suffixes == 1..MaxSuffix

\* an id no comparison ever produced
UnknownId == <<0, 0>>

\* the failures page.goto can end in; the first is the failure of the wait
\* condition (the page never became idle, or never fired load, in 90 s)
WaitTimeout == "Navigation timeout of 90000 ms exceeded"
NetworkFailures ==
  { "net::ERR_NAME_NOT_RESOLVED", "net::ERR_CONNECTION_REFUSED",
    "net::ERR_CONNECTION_TIMED_OUT", "net::ERR_CERT_AUTHORITY_INVALID",
    "401 Unauthorized" }
NavFailures == {WaitTimeout} \cup NetworkFailures

\* what a page.goto ended in: ok, the wait condition failed, or the network did
NavClass(e) ==
  IF e = "ok" THEN "ok" ELSE IF e = WaitTimeout THEN "wait" ELSE "network"

\* a request that has not arrived yet
IdleReq ==
  [ kind    |-> "none",     \* compare | inspect
    pc      |-> "idle",     \* the await the handler is suspended at
    design  |-> FALSE,      \* req.file.buffer is present
    url     |-> FALSE,      \* req.body.url is present
    auth    |-> FALSE,      \* username && password
    authed  |-> FALSE,      \* page.authenticate has attached the credentials
    browser |-> "null",     \* the handler's variable: null | session
    session |-> "none",     \* the launched session: none | open | closeAsked
    nav     |-> <<>>,       \* the outcome (NavClass) of each page.goto, in order
    waits   |-> <<>>,       \* the setTimeout delays awaited, in order
    shot    |-> <<>>,       \* <<waits>> at the moment of page.screenshot
    err     |-> "none",     \* error.message of the caught error
    status  |-> 0,          \* HTTP status sent, 0 while no response
    msg     |-> "",         \* the error text of the response
    result  |-> <<>> ]      \* <<result>> sent with a 200 of /api/compare

\* the error text of the 500 response of /api/compare
ErrorMessage(e) ==
  CASE e = "net::ERR_NAME_NOT_RESOLVED" ->
         "Could not resolve domain. Please check the URL."
    [] e = "net::ERR_CONNECTION_REFUSED" ->
         "Connection refused. The server may be down."
    [] e = "net::ERR_CONNECTION_TIMED_OUT" ->
         "Connection timed out. The server is too slow to respond."
    [] e = WaitTimeout ->
         "Page took too long to load. Try a simpler page or check your connection."
    [] e = "net::ERR_CERT_AUTHORITY_INVALID" ->
         "SSL certificate error. The site may have an invalid certificate."
    [] e = "401 Unauthorized" ->
         "Authentication failed. Please check username and password."
    [] OTHER -> e

\* res.status(500).json({error}) at the end of either catch block
Respond500(q, e) ==
  [q EXCEPT !.err = e, !.status = 500, !.pc = "done",
            !.msg = IF q.kind = "compare" THEN ErrorMessage(e) ELSE e]

\* a catch block that responds without releasing the session
CatchWithoutClose(q, e) == Respond500(q, e)

\* the catch block up to its first await: with a session in `browser` it calls
\* browser.close() and waits for it, otherwise it responds at once
Catch(q, e) ==
  IF q.browser # "null"
    THEN [q EXCEPT !.err = e, !.session = "closeAsked",
                   !.pc = "catchClose"]
    ELSE Respond500(q, e)


(***************************************************************************)
(* The image tail of /api/compare.  A buffer is a function from the pixel  *)
(* index y * width + x to the pixel's <<r, g, b>>; images are two-tone     *)
(* (white and black), on which pixelmatch's anti-aliasing test never fires *)
(* (it needs a darker and a brighter neighbour).  Percentages are held as  *)
(* the integer the digits of toFixed spell: tenths of a percent for        *)
(* toFixed(1), hundredths for toFixed(2).                                  *)
(***************************************************************************)
White == <<255, 255, 255>>
Black == <<0, 0, 0>>
\* the colour pixelmatch draws a mismatched pixel in
Red == <<255, 0, 0>>
\* what pixelmatch draws for a matching pixel: its luminance blended with
\* white at alpha 0.1 (255 for white, 229 for black)
Grey(c) == IF c = White THEN White ELSE <<229, 229, 229>>

\* the number 0 / 0 yields, and what parseFloat("NaN") returns
NaN == -1

\* JavaScript's a < b on numbers: false when either is NaN
JsLess(a, b) == a # NaN /\ b # NaN /\ a < b

\* n / d rounded to the nearest integer; at an exact half the double that
\* the division produced lies on either side, so the direction is an input
RoundDiv(n, d, tieUp) ==
  LET q == (2 * n + d) \div (2 * d)
  IN IF (2 * n + d) % (2 * d) = 0 /\ ~tieUp THEN q - 1 ELSE q

\* parseFloat((num / den * 100).toFixed(1)), in tenths of a percent
ToFixed1(num, den, tieUp) ==
  IF den = 0 THEN NaN ELSE RoundDiv(1000 * num, den, tieUp)

\* parseFloat((num / den * 100).toFixed(2)), in hundredths of a percent
ToFixed2(num, den, tieUp) ==
  IF den = 0 THEN NaN ELSE RoundDiv(10000 * num, den, tieUp)

\* pixelmatch(designPng.data, screenshotPng.data, diffPng.data, w, h, ...):
\* the buffer it draws and the count it returns
Pixelmatch(design, screenshot) ==
  [ data  |-> [i \in DOMAIN design |->
                 IF design[i] = screenshot[i] THEN Grey(design[i]) ELSE Red],
    count |-> Cardinality({i \in DOMAIN design : design[i] # screenshot[i]}) ]

\* a severity scale that puts each threshold in the lower class
getSeverityInclusive(diffPercent) ==
  IF diffPercent = NaN THEN "high"
  ELSE IF diffPercent <= 10 THEN "none"
  ELSE IF diffPercent <= 50 THEN "low"
  ELSE IF diffPercent <= 150 THEN "medium"
  ELSE "high"

\* getSeverity(diffPercent): the thresholds 1, 5, 15, in tenths
getSeverity(diffPercent) ==
  IF JsLess(diffPercent, 10) THEN "none"
  ELSE IF JsLess(diffPercent, 50) THEN "low"
  ELSE IF JsLess(diffPercent, 150) THEN "medium"
  ELSE "high"

getRegionName(gx, gy) ==
  LET vertical == <<"Top", "Upper-middle", "Lower-middle", "Bottom">>[gy + 1]
      horizontal == <<"Left", "Center-left", "Center-right", "Right">>[gx + 1]
  IN vertical \o " " \o horizontal

gridSize == 4
cellWidth(width) == width \div gridSize
cellHeight(height) == height \div gridSize

Min(a, b) == IF a < b THEN a ELSE b

\* the pixel is red: the marker of a difference
IsMarked(diffData, idx) ==
  diffData[idx][1] > 200 /\ diffData[idx][2] < 100 /\ diffData[idx][3] < 100

\* regions.push({...}): the region of one cell, from its box and its count
MakeRegion(gx, gy, startX, startY, endX, endY, diffCount, tieUp) ==
  LET cellPixels == (endX - startX) * (endY - startY)
      diffPercent == ToFixed1(diffCount, cellPixels, tieUp)
  IN [ position    |-> getRegionName(gx, gy),
       x           |-> startX,
       y           |-> startY,
       width       |-> endX - startX,
       height      |-> endY - startY,
       diffPixels  |-> diffCount,
       diffPercent |-> diffPercent,
       severity    |-> getSeverity(diffPercent) ]

\* the body of the two grid loops for the cell (gx, gy)
CellRegion(diffData, width, height, gx, gy, tieUp) ==
  LET startX == gx * cellWidth(width)
      startY == gy * cellHeight(height)
      endX == Min(startX + cellWidth(width), width)
      endY == Min(startY + cellHeight(height), height)
      diffCount ==
        Cardinality({p \in (startX .. endX - 1) \X (startY .. endY - 1) :
                       IsMarked(diffData, p[2] * width + p[1])})
  IN MakeRegion(gx, gy, startX, startY, endX, endY, diffCount, tieUp)

\* the regions in the order the loops push them: rows of the grid, top down
GridRegions(diffData, width, height, tieUp) ==
  [k \in 1 .. gridSize * gridSize |->
     CellRegion(diffData, width, height,
                (k - 1) % gridSize, (k - 1) \div gridSize, tieUp)]

\* the comparator (a, b) => b.diffPercent - a.diffPercent; a NaN result
\* counts as 0
CompareRegions(a, b) ==
  IF a.diffPercent = NaN \/ b.diffPercent = NaN
    THEN 0
    ELSE b.diffPercent - a.diffPercent

\* r put into the sorted sequence s, behind every element it does not beat
RECURSIVE InsertRegion(_, _)
InsertRegion(s, r) ==
  IF s = <<>> THEN <<r>>
  ELSE IF CompareRegions(s[Len(s)], r) > 0
    THEN Append(InsertRegion(SubSeq(s, 1, Len(s) - 1), r), s[Len(s)])
    ELSE Append(s, r)

RECURSIVE SortPrefix(_, _)
SortPrefix(s, n) ==
  IF n = 0 THEN <<>> ELSE InsertRegion(SortPrefix(s, n - 1), s[n])

\* regions.sort(comparator): Array.prototype.sort is stable
SortRegions(s) == SortPrefix(s, Len(s))

analyzeRegions(diffData, width, height, tieUp) ==
  SortRegions(GridRegions(diffData, width, height, tieUp))

\* the state of the image tail before a comparison
NoImage ==
  [ pc |-> "none", width |-> 0, height |-> 0, design |-> <<>>,
    screenshot |-> <<>>, diff |-> <<>>, mismatchedPixels |-> 0,
    stats |-> <<>>, regions |-> <<>> ]

\* no cell measured
NoCell == [ pc |-> "none", cellPixels |-> 0, diffCount |-> 0, region |-> <<>> ]

\* no viewport computed
NoView ==
  [ pc |-> "none", width |-> <<>>, height |-> <<>>, design |-> <<>>,
    viewportWidth |-> 0, viewportHeight |-> 0, applied |-> <<>>,
    isFullPage |-> <<>>, actual |-> <<>>, compare |-> <<>>, stats |-> <<>> ]

\* no error caught
NoFault ==
  [ pc |-> "none", stage |-> "none", browser |-> FALSE, class |-> "none",
    message |-> <<>>, error |-> <<>> ]

\* no statistics computed
NoTally ==
  [ pc |-> "none", totalPixels |-> 0, mismatchedPixels |-> 0, stats |-> <<>> ]

\* the pixels of a width x height image
Pixels(width, height) == 0 .. width * height - 1

\* the sets of at most MaxDiff pixels, and the set of all pixels
RECURSIVE UpTo(_, _)
UpTo(S, n) ==
  IF n = 0 THEN {{}}
  ELSE LET smaller == UpTo(S, n - 1)
       IN smaller \cup {d \cup {p} : d \in smaller, p \in S}
DiffSets(width, height) ==
  UpTo(Pixels(width, height), MaxDiff) \cup {Pixels(width, height)}

\* PNG.sync.read of the two normalized images: the design is white, the
\* screenshot is white but for the pixels of `black`
Decoded(width, height, black) ==
  [ NoImage EXCEPT
      !.pc = "decoded", !.width = width, !.height = height,
      !.design = [i \in Pixels(width, height) |-> White],
      !.screenshot = [i \in Pixels(width, height) |->
                        IF i \in black THEN Black ELSE White] ]

InitServer ==
  /\ now = 0
  /\ nextSweep = SweepIntervalMin
  /\ sweptAt = {}
  /\ resultsStore = [i \in {} |-> 0]
  /\ req = [r \in Reqs |-> IdleReq]
  /\ getResp = [status |-> 0, age |-> 0, comparison |-> 0]

\* new PNG({width, height}) and pixelmatch(...)
Diff ==
  /\ img.pc = "decoded"
  /\ LET d == Pixelmatch(img.design, img.screenshot)
     IN img' = [img EXCEPT !.diff = d.data, !.mismatchedPixels = d.count,
                           !.pc = "diffed"]
  /\ UNCHANGED <<cell, view, fault, tally, server>>

\* totalPixels, matchPercentage, diffPercentage, analyzeRegions, result
Analyze ==
  /\ img.pc = "diffed"
  /\ \E tieUp \in BOOLEAN :
       LET totalPixels == img.width * img.height
           stats ==
             [ totalPixels      |-> totalPixels,
               mismatchedPixels |-> img.mismatchedPixels,
               matchPercentage  |->
                 ToFixed2(totalPixels - img.mismatchedPixels, totalPixels, tieUp),
               diffPercentage   |->
                 ToFixed2(img.mismatchedPixels, totalPixels, tieUp),
               viewport         |-> [width |-> img.width, height |-> img.height] ]
       IN img' = [img EXCEPT
                    !.stats = <<stats>>,
                    !.regions = analyzeRegions(img.diff, img.width, img.height, tieUp),
                    !.pc = "done"]
  /\ UNCHANGED <<cell, view, fault, tally, server>>

InitImage ==
  /\ InitServer
  /\ cell = NoCell
  /\ view = NoView /\ fault = NoFault /\ tally = NoTally
  /\ \E width \in 1 .. MaxDim, height \in 1 .. MaxDim :
       \E black \in DiffSets(width, height) :
         img = Decoded(width, height, black)

NextImage == Diff \/ Analyze

SpecImage == InitImage /\ [][NextImage]_vars

\* one cell of analyzeRegions: its count is taken and its region is pushed
MeasureCell ==
  /\ cell.pc = "counted"
  /\ \E tieUp \in BOOLEAN :
       cell' = [cell EXCEPT
                  !.region = <<MakeRegion(0, 0, 0, 0, cell.cellPixels, 1,
                                          cell.diffCount, tieUp)>>,
                  !.pc = "pushed"]
  /\ UNCHANGED <<img, view, fault, tally, server>>

InitCell ==
  /\ InitServer
  /\ img = NoImage
  /\ view = NoView /\ fault = NoFault /\ tally = NoTally
  /\ \E cellPixels \in 0 .. MaxCellPixels :
       \E diffCount \in 0 .. cellPixels :
         cell = [NoCell EXCEPT !.pc = "counted", !.cellPixels = cellPixels,
                               !.diffCount = diffCount]

NextCell == MeasureCell

SpecCell == InitCell /\ [][NextCell]_vars

(***************************************************************************)
(* The viewport of /api/compare: from the width and height fields of the   *)
(* request body to stats.viewport.  A body field is the sequence of its    *)
(* characters; a number that may be NaN is <<>> (NaN) or <<n>>.            *)
(***************************************************************************)
\* what String(undefined) spells: the field is absent from the body
Undefined == <<"u", "n", "d", "e", "f", "i", "n", "e", "d">>

DigitChars ==
  <<"0", "1", "2", "3", "4", "5", "6", "7", "8", "9",
    "a", "b", "c", "d", "e", "f">>

\* the value of a digit, 16 for any other character
DigitValue(c) ==
  IF \E k \in DOMAIN DigitChars : DigitChars[k] = c
    THEN (CHOOSE k \in DOMAIN DigitChars : DigitChars[k] = c) - 1
    ELSE 16

RECURSIVE TrimStart(_)
TrimStart(s) == IF s # <<>> /\ Head(s) = " " THEN TrimStart(Tail(s)) ELSE s

\* the number the leading digits of s spell in the radix, after acc
RECURSIVE Accumulate(_, _, _)
Accumulate(s, radix, acc) ==
  IF s = <<>> \/ DigitValue(Head(s)) >= radix
    THEN acc
    ELSE Accumulate(Tail(s), radix, acc * radix + DigitValue(Head(s)))

\* parseInt(string) without a radix: white space, a sign, 0x, the digits
ParseInt(string) ==
  LET t == TrimStart(string)
      negative == t # <<>> /\ Head(t) = "-"
      u == IF t # <<>> /\ Head(t) \in {"+", "-"} THEN Tail(t) ELSE t
      hex == Len(u) >= 2 /\ u[1] = "0" /\ u[2] \in {"x", "X"}
      radix == IF hex THEN 16 ELSE 10
      d == IF hex THEN Tail(Tail(u)) ELSE u
  IN IF d = <<>> \/ DigitValue(Head(d)) >= radix
       THEN <<>>
       ELSE << (IF negative THEN -1 ELSE 1) * Accumulate(d, radix, 0) >>

\* number || fallback: NaN and 0 are falsy
OrDefault(number, fallback) ==
  IF number = <<>> \/ number = <<0>> THEN fallback ELSE number[1]

DefaultWidth == 1920
DefaultHeight == 1080
MaxViewportWidth == 3840
MaxViewportHeight == 15000
FullPageThreshold == 2000

\* a viewport dimension taken as requested, without the cap
ClampWithoutCap(requested, fallback, cap) ==
  OrDefault(ParseInt(requested), fallback)

\* Math.min(parseInt(requested) || fallback, cap)
Clamp(requested, fallback, cap) ==
  Min(OrDefault(ParseInt(requested), fallback), cap)

\* the width fields the clients send
RequestedWidths ==
  { Undefined, <<>>, <<"a", "b", "c">>, <<"0">>, <<"-", "5">>, <<"1">>,
    <<"8", "0", "0">>, <<"3", "8", "4", "0">>, <<"3", "8", "4", "1">>,
    <<"9", "9", "9", "9", "9">>, <<"1", "2", "p", "x">>, <<"0", "x", "f", "f">> }

\* the height fields the clients send
RequestedHeights ==
  { Undefined, <<"a", "b", "c">>, <<"0">>, <<"-", "5">>, <<"6", "0", "0">>,
    <<"2", "0", "0", "0">>, <<"2", "0", "0", "1">>,
    <<"1", "5", "0", "0", "0">>, <<"1", "5", "0", "0", "1">>,
    <<"9", "9", "9", "9", "9">> }

\* the sizes of the design images the clients upload
DesignSizes == { [width |-> 4, height |-> 4], [width |-> 1440, height |-> 900] }

\* lines 75-76: the viewport of the comparison; then the session is launched
\* and page.setViewport is called with it
ClampViewport ==
  /\ view.pc = "received"
  /\ view' = [view EXCEPT
       !.viewportWidth = Clamp(view.width, DefaultWidth, MaxViewportWidth),
       !.viewportHeight = Clamp(view.height, DefaultHeight, MaxViewportHeight),
       !.pc = "setViewport"]
  /\ UNCHANGED <<img, cell, fault, tally, server>>

\* page.setViewport({width: viewportWidth, height: viewportHeight}) settles;
\* the browser may reject the size
ApplyViewport ==
  /\ view.pc = "setViewport"
  /\ \E accepted \in BOOLEAN :
       view' = [view EXCEPT
         !.applied = <<[width |-> view.viewportWidth,
                        height |-> view.viewportHeight]>>,
         !.pc = IF accepted THEN "settled" ELSE "failed"]
  /\ UNCHANGED <<img, cell, fault, tally, server>>

\* const isFullPage = viewportHeight > 2000, and page.screenshot is called
DecideCapture ==
  /\ view.pc = "settled"
  /\ view' = [view EXCEPT
       !.isFullPage = <<view.viewportHeight > FullPageThreshold>>,
       !.pc = "screenshot"]
  /\ UNCHANGED <<img, cell, fault, tally, server>>

\* page.screenshot({fullPage: isFullPage}) settles: a viewport capture has the
\* size of the viewport, a full-page capture the size of the page, which is
\* no smaller than the viewport
Screenshot ==
  /\ view.pc = "screenshot"
  /\ \E dw \in 0 .. MaxOverflow, dh \in 0 .. MaxOverflow :
       /\ view.isFullPage = <<FALSE>> => (dw = 0 /\ dh = 0)
       /\ view' = [view EXCEPT
            !.actual = <<[width |-> view.viewportWidth + dw,
                          height |-> view.viewportHeight + dh]>>,
            !.pc = "metadata"]
  /\ UNCHANGED <<img, cell, fault, tally, server>>

\* comparison dimensions that are the viewport's in either capture mode
CompareSizeOfViewport(isFullPage, actual, viewport) == viewport

\* compareWidth and compareHeight
CompareSize(isFullPage, actual, viewport) ==
  [ width  |-> IF isFullPage THEN actual.width ELSE viewport.width,
    height |-> IF isFullPage THEN actual.height ELSE viewport.height ]

\* sharp(screenshotBuffer).metadata() settles: compareWidth, compareHeight
Canonical ==
  /\ view.pc = "metadata"
  /\ view' = [view EXCEPT
       !.compare =
         << CompareSize(view.isFullPage[1], view.actual[1],
                        [width |-> view.viewportWidth,
                         height |-> view.viewportHeight]) >>,
       !.pc = "resize"]
  /\ UNCHANGED <<img, cell, fault, tally, server>>

\* both images are resized to compareWidth x compareHeight; result.stats
Report ==
  /\ view.pc = "resize"
  /\ view' = [view EXCEPT
       !.stats = <<[viewport |-> view.compare[1],
                    isFullPage |-> view.isFullPage[1]]>>,
       !.pc = "done"]
  /\ UNCHANGED <<img, cell, fault, tally, server>>

InitView ==
  /\ InitServer
  /\ img = NoImage /\ cell = NoCell /\ fault = NoFault /\ tally = NoTally
  /\ \E width \in RequestedWidths, height \in RequestedHeights :
       \E design \in DesignSizes :
         view = [NoView EXCEPT !.pc = "received", !.width = width,
                               !.height = height, !.design = <<design>>]

NextView ==
  \/ ClampViewport
  \/ ApplyViewport
  \/ DecideCapture
  \/ Screenshot
  \/ Canonical
  \/ Report

SpecView == InitView /\ [][NextView]_vars

(***************************************************************************)
(* The catch block of /api/compare on the messages the libraries throw.    *)
(* A message is the sequence of its fragments, cut so that every marker    *)
(* the catch block searches for is a fragment of its own; the text of the  *)
(* response is such a sequence too.                                        *)
(***************************************************************************)
\* error.message.includes(needle)
Includes(message, needle) == \E i \in DOMAIN message : message[i] = needle

\* errorMessage of the catch block
ErrorText(message) ==
  IF Includes(message, "net::ERR_NAME_NOT_RESOLVED")
    THEN <<"Could not resolve domain. Please check the URL.">>
  ELSE IF Includes(message, "net::ERR_CONNECTION_REFUSED")
    THEN <<"Connection refused. The server may be down.">>
  ELSE IF Includes(message, "net::ERR_CONNECTION_TIMED_OUT")
    THEN <<"Connection timed out. The server is too slow to respond.">>
  ELSE IF Includes(message, "Navigation timeout")
    THEN <<"Page took too long to load. Try a simpler page or check your connection.">>
  ELSE IF Includes(message, "net::ERR_CERT")
    THEN <<"SSL certificate error. The site may have an invalid certificate.">>
  ELSE IF Includes(message, "401") \/ Includes(message, "Unauthorized")
    THEN <<"Authentication failed. Please check username and password.">>
  ELSE IF message = <<>>
    THEN <<"An error occurred during comparison">>
  ELSE message

\* the URLs the clients ask to compare
Urls ==
  { <<"https://example.com/">>,
    <<"https://example.com/orders/", "401">>,
    <<"https://example.com/docs/", "Unauthorized", "/">>,
    <<"https://example.com/pricing">> }

\* what Chrome reports for a failed navigation, with the class of the failure
NetErrors ==
  { [class |-> "dns",          text |-> <<"net::ERR_NAME_NOT_RESOLVED">>],
    [class |-> "refused",      text |-> <<"net::ERR_CONNECTION_REFUSED">>],
    [class |-> "timedOut",     text |-> <<"net::ERR_CONNECTION_TIMED_OUT">>],
    [class |-> "certificate",  text |-> <<"net::ERR_CERT", "_AUTHORITY_INVALID">>],
    [class |-> "certificate",  text |-> <<"net::ERR_CERT", "_DATE_INVALID">>],
    [class |-> "unauthorized", text |-> <<"net::ERR_INVALID_AUTH_CREDENTIALS">>],
    [class |-> "other",        text |-> <<"net::ERR_ABORTED">>],
    [class |-> "other",        text |-> <<"net::ERR_CONNECTION_RESET">>],
    [class |-> "other",        text |-> <<"net::ERR_TOO_MANY_REDIRECTS">>] }

\* the errors that reach the catch block: the stage that threw, whether the
\* handler's `browser` still holds the session, the class and the message.
\* page.goto rejects with "<net error> at <url>" or with the timeout text.
Thrown ==
  { [stage |-> "navigation", browser |-> TRUE, class |-> e.class,
     message |-> e.text \o <<" at ">> \o url] : e \in NetErrors, url \in Urls }
  \cup
  { [stage |-> "navigation", browser |-> TRUE, class |-> "navTimeout",
     message |-> <<"Navigation timeout", " of 90000 ms exceeded">>],
    [stage |-> "launch", browser |-> FALSE, class |-> "other",
     message |-> <<"Failed to launch the browser process!">>],
    [stage |-> "launch", browser |-> FALSE, class |-> "other",
     message |-> <<"Timed out after 60000 ms while waiting for the WS endpoint URL to appear in stdout!">>],
    [stage |-> "screenshot", browser |-> TRUE, class |-> "other",
     message |-> <<"Protocol error (Page.captureScreenshot): Unable to capture screenshot">>],
    [stage |-> "decode", browser |-> FALSE, class |-> "other",
     message |-> <<"Input buffer contains unsupported image format">>],
    [stage |-> "decode", browser |-> FALSE, class |-> "other",
     message |-> <<"Invalid file signature">>],
    [stage |-> "diff", browser |-> FALSE, class |-> "other",
     message |-> <<"Image sizes do not match.">>] }

\* catch (error): with a session in `browser`, browser.close() is awaited
CatchError ==
  /\ fault.pc = "thrown"
  /\ fault' = [fault EXCEPT !.pc = IF fault.browser THEN "closing" ELSE "mapping"]
  /\ UNCHANGED <<img, cell, view, tally, server>>

\* the browser.close() of the catch block settles
CloseInCatch ==
  /\ fault.pc = "closing"
  /\ fault' = [fault EXCEPT !.pc = "mapping"]
  /\ UNCHANGED <<img, cell, view, tally, server>>

\* res.status(500).json({ error: errorMessage })
RespondError ==
  /\ fault.pc = "mapping"
  /\ fault' = [fault EXCEPT !.error = <<ErrorText(fault.message)>>, !.pc = "done"]
  /\ UNCHANGED <<img, cell, view, tally, server>>

InitError ==
  /\ InitServer
  /\ img = NoImage /\ cell = NoCell /\ view = NoView /\ tally = NoTally
  /\ \E e \in Thrown :
       fault = [NoFault EXCEPT !.pc = "thrown", !.stage = e.stage,
                               !.browser = e.browser, !.class = e.class,
                               !.message = e.message]

NextError == CatchError \/ CloseInCatch \/ RespondError

SpecError == InitError /\ [][NextError]_vars

(***************************************************************************)
(* The statistics of /api/compare on the pixel counts of real viewports,   *)
(* without the buffers.                                                    *)
(***************************************************************************)
\* the widths and heights compared
TallyWidths == {1, 8, 100, 200, 201, 320}
TallyHeights == {1, 100, 240}

\* percentages rounded to one decimal
PercentagesToOneDecimal(totalPixels, mismatchedPixels, tieUp) ==
  [ matchPercentage |->
      10 * ToFixed1(totalPixels - mismatchedPixels, totalPixels, tieUp),
    diffPercentage |-> 10 * ToFixed1(mismatchedPixels, totalPixels, tieUp) ]

\* matchPercentage and diffPercentage, in hundredths of a percent
Percentages(totalPixels, mismatchedPixels, tieUp) ==
  [ matchPercentage |->
      ToFixed2(totalPixels - mismatchedPixels, totalPixels, tieUp),
    diffPercentage |-> ToFixed2(mismatchedPixels, totalPixels, tieUp) ]

\* totalPixels, matchPercentage, diffPercentage and result.stats
Tally ==
  /\ tally.pc = "diffed"
  /\ \E tieUp \in BOOLEAN :
       LET p == Percentages(tally.totalPixels, tally.mismatchedPixels, tieUp)
       IN tally' = [tally EXCEPT
            !.stats = <<[ totalPixels      |-> tally.totalPixels,
                          mismatchedPixels |-> tally.mismatchedPixels,
                          matchPercentage  |-> p.matchPercentage,
                          diffPercentage   |-> p.diffPercentage ]>>,
            !.pc = "done"]
  /\ UNCHANGED <<img, cell, view, fault, server>>

InitStats ==
  /\ InitServer
  /\ img = NoImage /\ cell = NoCell /\ view = NoView /\ fault = NoFault
  /\ \E width \in TallyWidths, height \in TallyHeights :
       \E mismatchedPixels \in 0 .. Min(MaxMismatched, width * height) :
         tally = [NoTally EXCEPT !.pc = "diffed",
                                 !.totalPixels = width * height,
                                 !.mismatchedPixels = mismatchedPixels]

NextStats == Tally

SpecStats == InitStats /\ [][NextStats]_vars

Init ==
  /\ InitServer
  /\ img = NoImage
  /\ cell = NoCell
  /\ view = NoView /\ fault = NoFault /\ tally = NoTally

Others == <<now, nextSweep, sweptAt, resultsStore, getResp, img, cell,
            view, fault, tally>>

\* the requests are numbered in the order they arrive
Arrives(r) ==
  /\ req[r].pc = "idle"
  /\ IF r = 1 THEN TRUE ELSE req[r - 1].pc # "idle"

\* a validation that tests the URL before the design image
ValidationUrlFirst(q) ==
  IF ~q.url THEN [q EXCEPT !.status = 400, !.pc = "done",
                           !.msg = "URL is required"]
  ELSE IF ~q.design THEN [q EXCEPT !.status = 400, !.pc = "done",
                                   !.msg = "Design image is required"]
  ELSE [q EXCEPT !.pc = "launch"]

\* /api/compare: the two tests of the request, then puppeteer.launch
Validation(q) ==
  IF ~q.design THEN [q EXCEPT !.status = 400, !.pc = "done",
                              !.msg = "Design image is required"]
  ELSE IF ~q.url THEN [q EXCEPT !.status = 400, !.pc = "done",
                                !.msg = "URL is required"]
  ELSE [q EXCEPT !.pc = "launch"]

\* POST /api/compare arrives: validation, then puppeteer.launch is awaited
CompareStart(r) ==
  /\ Arrives(r)
  /\ \E d \in BOOLEAN, u \in BOOLEAN, username \in BOOLEAN, password \in BOOLEAN :
       req' = [req EXCEPT ![r] =
                 Validation([req[r] EXCEPT !.kind = "compare", !.design = d,
                                           !.url = u,
                                           !.auth = username /\ password])]
  /\ UNCHANGED Others

\* POST /api/inspect arrives
InspectStart(r) ==
  /\ Arrives(r)
  /\ \E u \in BOOLEAN, username \in BOOLEAN, password \in BOOLEAN :
       LET q == [req[r] EXCEPT !.kind = "inspect", !.url = u,
                               !.auth = username /\ password]
       IN req' = [req EXCEPT ![r] =
            IF ~u THEN [q EXCEPT !.status = 400, !.pc = "done",
                                 !.msg = "URL is required"]
            ELSE [q EXCEPT !.pc = "launch"]]
  /\ UNCHANGED Others

\* puppeteer.launch settles; on success browser.newPage() is awaited
Launch(r) ==
  /\ req[r].pc = "launch"
  /\ \/ req' = [req EXCEPT ![r] = [@ EXCEPT !.browser = "session",
                                            !.session = "open",
                                            !.pc = "newPage"]]
     \/ req' = [req EXCEPT ![r] = Catch(@, "Failed to launch the browser process")]
  /\ UNCHANGED Others

\* browser.newPage settles; on success page.setViewport is awaited
NewPage(r) ==
  /\ req[r].pc = "newPage"
  /\ \/ req' = [req EXCEPT ![r] = [@ EXCEPT !.pc = "setViewport"]]
     \/ req' = [req EXCEPT ![r] = Catch(@, "Protocol error (Target.createTarget)")]
  /\ UNCHANGED Others

\* a handler that navigates without attaching the credentials
WithoutAuthenticate(q) == "goto"

\* if (username && password) await page.authenticate(...); then page.goto
AfterViewport(q) == IF q.auth THEN "authenticate" ELSE "goto"

\* page.setViewport settles; then page.authenticate or page.goto is awaited
SetViewport(r) ==
  /\ req[r].pc = "setViewport"
  /\ \/ req' = [req EXCEPT ![r] = [@ EXCEPT !.pc = AfterViewport(req[r])]]
     \/ req' = [req EXCEPT ![r] = Catch(@, "Protocol error (Emulation.setDeviceMetricsOverride)")]
  /\ UNCHANGED Others

\* page.authenticate settles; then page.goto is awaited
Authenticate(r) ==
  /\ req[r].pc = "authenticate"
  /\ \/ req' = [req EXCEPT ![r] = [@ EXCEPT !.authed = TRUE, !.pc = "goto"]]
     \/ req' = [req EXCEPT ![r] = Catch(@, "Protocol error (Network.setExtraHTTPHeaders)")]
  /\ UNCHANGED Others

\* /api/compare: what follows a first page.goto that threw error e
RetryLoad(q, e) == [q EXCEPT !.nav = Append(@, NavClass(e)), !.pc = "gotoLoad"]

\* the first page.goto (waitUntil networkidle2) settles
Goto(r) ==
  /\ req[r].pc = "goto"
  /\ \/ req' = [req EXCEPT ![r] = [@ EXCEPT !.nav = Append(@, "ok"),
                                            !.pc = "settle"]]
     \/ \E e \in NavFailures :
          req' = [req EXCEPT ![r] =
                    IF @.kind = "compare"
                      THEN RetryLoad(@, e)
                      ELSE Catch([@ EXCEPT !.nav = Append(@, NavClass(e))], e)]
  /\ UNCHANGED Others

\* /api/compare: the second page.goto (waitUntil load) settles
GotoLoad(r) ==
  /\ req[r].pc = "gotoLoad"
  /\ \/ req' = [req EXCEPT ![r] = [@ EXCEPT !.nav = Append(@, "ok"),
                                            !.pc = "extraWait"]]
     \/ \E e \in NavFailures :
          req' = [req EXCEPT ![r] = Catch([@ EXCEPT !.nav = Append(@, NavClass(e))], e)]
  /\ UNCHANGED Others

\* a retry that goes on without the extra delay
FallbackWaitsSkipped(q) == q.waits

\* /api/compare: the delays awaited after a successful load-event retry
FallbackWaits(q) == Append(q.waits, FallbackDelayMs)

\* /api/compare: the 3 s timer after the load-event retry fires
ExtraWait(r) ==
  /\ req[r].pc = "extraWait"
  /\ req' = [req EXCEPT ![r] = [@ EXCEPT !.waits = FallbackWaits(req[r]),
                                         !.pc = "settle"]]
  /\ UNCHANGED Others

\* the 2 s timer fires; page.screenshot (page.evaluate) is awaited
Settle(r) ==
  /\ req[r].pc = "settle"
  /\ req' = [req EXCEPT ![r] =
               [@ EXCEPT !.waits = Append(@, SettleDelayMs),
                         !.shot = IF req[r].kind = "compare"
                                    THEN <<Append(req[r].waits, SettleDelayMs)>>
                                    ELSE @,
                         !.pc = "capture"]]
  /\ UNCHANGED Others

\* a handler that goes on to the images with its session left open
AfterScreenshotWithoutClose(q) == [q EXCEPT !.pc = "metadata"]

\* await browser.close() after the screenshot (/api/inspect: the evaluation)
AfterScreenshot(q) == [q EXCEPT !.session = "closeAsked", !.pc = "close"]

\* page.screenshot (/api/inspect: page.evaluate) settles; on success
\* browser.close() is called and awaited
Capture(r) ==
  /\ req[r].pc = "capture"
  /\ \/ req' = [req EXCEPT ![r] = AfterScreenshot(@)]
     \/ req' = [req EXCEPT ![r] =
                  Catch(@, IF @.kind = "compare"
                             THEN "Protocol error (Page.captureScreenshot)"
                             ELSE "Evaluation failed")]
  /\ UNCHANGED Others

\* the awaited browser.close() settles: browser = null, then /api/compare
\* awaits sharp(...).metadata() and /api/inspect responds
Close(r) ==
  /\ req[r].pc = "close"
  /\ \/ req' = [req EXCEPT ![r] =
                  IF @.kind = "compare"
                    THEN [@ EXCEPT !.browser = "null", !.pc = "metadata"]
                    ELSE [@ EXCEPT !.browser = "null", !.status = 200,
                                   !.pc = "done"]]
     \/ req' = [req EXCEPT ![r] = Catch(@, "Protocol error (Browser.close)")]
  /\ UNCHANGED Others

\* the browser.close() of the catch block settles (a rejection is logged and
\* dropped); the 500 response is sent
CatchClose(r) ==
  /\ req[r].pc = "catchClose"
  /\ req' = [req EXCEPT ![r] = Respond500(@, @.err)]
  /\ UNCHANGED Others

\* sharp(screenshotBuffer).metadata() settles
Metadata(r) ==
  /\ req[r].pc = "metadata"
  /\ \/ req' = [req EXCEPT ![r] = [@ EXCEPT !.pc = "resizeDesign"]]
     \/ req' = [req EXCEPT ![r] = Catch(@, "Input buffer contains unsupported image format")]
  /\ UNCHANGED Others

\* sharp(designBuffer).resize().png().toBuffer() settles
ResizeDesign(r) ==
  /\ req[r].pc = "resizeDesign"
  /\ \/ req' = [req EXCEPT ![r] = [@ EXCEPT !.pc = "resizeScreenshot"]]
     \/ req' = [req EXCEPT ![r] = Catch(@, "Input buffer contains unsupported image format")]
  /\ UNCHANGED Others

\* an insertion that writes the result under every id of the store
StoreSetEverywhere(store, result) ==
  [i \in DOMAIN store \cup {result.id} |-> result]

\* an insertion that empties the store first
StoreSetAlone(store, result) == [i \in {result.id} |-> result]

\* resultsStore.set(result.id, result)
StoreSet(store, result) ==
  [i \in DOMAIN store \cup {result.id} |->
     IF i = result.id THEN result ELSE store[i]]

\* sharp(screenshotBuffer).resize().png().toBuffer() settles; the rest of the
\* handler is synchronous: decode, pixelmatch, statistics, analyzeRegions, the
\* result with its id and timestamp, resultsStore.set, res.json.  The images,
\* statistics and regions of the result are those of this comparison: the
\* field `comparison` stands for them.
ResizeScreenshot(r) ==
  /\ req[r].pc = "resizeScreenshot"
  /\ \/ \E s \in Suffixes :
          LET result == [id |-> <<now, s>>, timestamp |-> now,
                         comparison |-> r] IN
          /\ resultsStore' = StoreSet(resultsStore, result)
          /\ req' = [req EXCEPT ![r] = [@ EXCEPT !.status = 200,
                                                 !.result = <<result>>,
                                                 !.pc = "done"]]
     \/ /\ \E e \in { "Input buffer contains unsupported image format",
                      "Invalid file signature" } :
             req' = [req EXCEPT ![r] = Catch(@, e)]
        /\ UNCHANGED resultsStore
  /\ UNCHANGED <<now, nextSweep, sweptAt, getResp, img, cell, view, fault, tally>>

\* the ids the responses so far have handed to clients
IssuedIds ==
  {req[r].result[1].id : r \in {x \in Reqs : req[x].result # <<>>}}

\* GET /api/result/:id
GetResult(id) ==
  /\ getResp' =
       IF id \in DOMAIN resultsStore
         THEN [status |-> 200, age |-> now - resultsStore[id].timestamp,
               comparison |-> resultsStore[id].comparison]
         ELSE [status |-> 404, age |-> 0, comparison |-> 0]
  /\ UNCHANGED <<now, nextSweep, sweptAt, resultsStore, req, img, cell,
               view, fault, tally>>

\* a sweep that already deletes at the age of the retention window
ExpiredAtWindow(entry, t) == t - entry.timestamp >= RetentionMin

\* whether the sweep deletes an entry
Expired(entry, t) == t - entry.timestamp > RetentionMin

\* the setInterval callback
Sweep ==
  /\ now = nextSweep
  /\ resultsStore' =
       [i \in {k \in DOMAIN resultsStore : ~Expired(resultsStore[k], now)} |->
          resultsStore[i]]
  /\ sweptAt' = sweptAt \cup {now}
  /\ nextSweep' = nextSweep + SweepIntervalMin
  /\ UNCHANGED <<now, req, getResp, img, cell, view, fault, tally>>

\* time passes; the timer's callback runs before the clock leaves its due time
Tick ==
  /\ now < nextSweep
  /\ now < MaxTicks * TickMin
  /\ now' = now + TickMin
  /\ UNCHANGED <<nextSweep, sweptAt, resultsStore, req, getResp, img, cell,
               view, fault, tally>>

Next ==
  \/ \E r \in Reqs : CompareStart(r)
  \/ \E r \in Reqs : InspectStart(r)
  \/ \E r \in Reqs : Launch(r)
  \/ \E r \in Reqs : NewPage(r)
  \/ \E r \in Reqs : SetViewport(r)
  \/ \E r \in Reqs : Authenticate(r)
  \/ \E r \in Reqs : Goto(r)
  \/ \E r \in Reqs : GotoLoad(r)
  \/ \E r \in Reqs : ExtraWait(r)
  \/ \E r \in Reqs : Settle(r)
  \/ \E r \in Reqs : Capture(r)
  \/ \E r \in Reqs : Close(r)
  \/ \E r \in Reqs : CatchClose(r)
  \/ \E r \in Reqs : Metadata(r)
  \/ \E r \in Reqs : ResizeDesign(r)
  \/ \E r \in Reqs : ResizeScreenshot(r)
  \/ \E id \in IssuedIds \cup {UnknownId} : GetResult(id)
  \/ Sweep
  \/ Tick

Spec == Init /\ [][Next]_vars

(***************************************************************************)
(* Claims checked under Spec.                                              *)
(***************************************************************************)
\* the failures of the steps that follow the navigation
LaterFailures ==
  { "Protocol error (Page.captureScreenshot)", "Evaluation failed",
    "Protocol error (Browser.close)",
    "Input buffer contains unsupported image format",
    "Invalid file signature" }

\* the results the responses so far have handed to clients
Issued == {req[r].result[1] : r \in {x \in Reqs : req[x].result # <<>>}}

\* C1: when a handler (/api/compare or /api/inspect) has sent its response,
\* on any path, the session it launched has been asked to close: no session
\* is still open past the request that launched it.
C1_SessionReleased ==
  \A r \in Reqs : req[r].status # 0 => req[r].session # "open"

\* a request that failed after its navigation and released its session
C1_Witness ==
  \E r \in Reqs :
    /\ req[r].status = 500
    /\ req[r].err \in LaterFailures
    /\ req[r].nav # <<>>
    /\ req[r].session = "closeAsked"

\* C2: /api/compare makes a second (load-event) navigation only when the
\* first failed on the wait condition; after any other failure of the first
\* navigation there is no second one; and never more than two.
C2_RetryOnlyAfterWaitFailure ==
  \A r \in Reqs :
    req[r].kind = "compare" =>
      /\ Len(req[r].nav) <= 2
      /\ (req[r].pc = "gotoLoad" \/ Len(req[r].nav) = 2) =>
           req[r].nav[1] = "wait"

\* C3: /api/compare whose first navigation failed and whose load-event retry
\* succeeded, with no later step failing, ends in a 200 carrying a result;
\* its screenshot is taken only after the 3 s delay and then the 2 s delay,
\* and after the 2 s delay alone when the first navigation succeeded.
C3_FallbackSucceeds ==
  \A r \in Reqs :
    req[r].kind = "compare" =>
      /\ ( /\ req[r].pc = "done"
           /\ Len(req[r].nav) = 2
           /\ req[r].nav[2] = "ok"
           /\ req[r].err \notin LaterFailures )
         => (req[r].status = 200 /\ req[r].result # <<>>)
      /\ req[r].shot # <<>> =>
           req[r].shot[1] = IF Len(req[r].nav) = 2
                              THEN <<FallbackDelayMs, SettleDelayMs>>
                              ELSE <<SettleDelayMs>>

\* a comparison that succeeded through the load-event retry
C3_Witness ==
  \E r \in Reqs :
    /\ req[r].status = 200
    /\ req[r].nav = <<"wait", "ok">>
    /\ req[r].shot = << <<FallbackDelayMs, SettleDelayMs>> >>
    /\ req[r].result # <<>>

\* C5: GET /api/result/:id of an entry older than the retention window
\* answers 404 "not found or expired", whether or not a sweep has run since.
C5_ExpiredIsNotFound ==
  getResp.status = 200 => getResp.age <= RetentionMin

C12_RejectedBeforeLaunch ==
  /\ [](\A r \in Reqs :
         (req[r].kind = "compare" /\ (~req[r].design \/ ~req[r].url)) =>
           /\ req[r].status = 400
           /\ req[r].pc = "done"
           /\ req[r].session = "none" /\ req[r].browser = "null"
           /\ req[r].nav = <<>> /\ req[r].result = <<>>
           /\ req[r].msg = IF ~req[r].design THEN "Design image is required"
                                             ELSE "URL is required")
  /\ [][\A r \in Reqs :
          (req[r].status = 0 /\ req'[r].status = 400) =>
            resultsStore' = resultsStore]_vars

\* a request with neither field is rejected while the store holds a result
C12_Witness ==
  \E r \in Reqs :
    /\ req[r].kind = "compare"
    /\ ~req[r].design /\ ~req[r].url
    /\ req[r].status = 400
    /\ req[r].msg = "Design image is required"
    /\ DOMAIN resultsStore # {}

\* the awaits of /api/compare each stage may be followed by
StagesAfter(pc) ==
  CASE pc = "idle" -> {"launch", "done"}
    [] pc = "launch" -> {"newPage", "done"}
    [] pc = "newPage" -> {"setViewport", "catchClose"}
    [] pc = "setViewport" -> {"authenticate", "goto", "catchClose"}
    [] pc = "authenticate" -> {"goto", "catchClose"}
    [] pc = "goto" -> {"settle", "gotoLoad"}
    [] pc = "gotoLoad" -> {"extraWait", "catchClose"}
    [] pc = "extraWait" -> {"settle"}
    [] pc = "settle" -> {"capture"}
    [] pc = "capture" -> {"close", "catchClose"}
    [] pc = "close" -> {"metadata", "catchClose"}
    [] pc = "metadata" -> {"resizeDesign", "done"}
    [] pc = "resizeDesign" -> {"resizeScreenshot", "done"}
    [] pc = "resizeScreenshot" -> {"done"}
    [] pc = "catchClose" -> {"done"}
    [] OTHER -> {}

\* the stages that use the session: from the new page to the screenshot
SessionStages ==
  { "newPage", "setViewport", "authenticate", "goto", "gotoLoad", "extraWait",
    "settle", "capture" }

\* the stages that normalize and compare the images
ImageStages == {"metadata", "resizeDesign", "resizeScreenshot"}

\* C15: the stages of one comparison run in the fixed order launch, viewport,
\* (auth), navigation, settle, screenshot, release, normalization, diff and
\* analysis, store insertion, response; the release of the session has
\* completed before normalization begins; no stage after the screenshot has
\* an open session; the response of a success comes with the insertion.
C15_StagesInOrder ==
  /\ [](\A r \in Reqs :
         req[r].kind = "compare" =>
           /\ req[r].pc \in ImageStages =>
                (req[r].browser = "null" /\ req[r].session = "closeAsked")
           /\ req[r].status = 200 =>
                (req[r].browser = "null" /\ req[r].session = "closeAsked")
           /\ req[r].session = "open" => req[r].pc \in SessionStages
           /\ req[r].pc \in SessionStages => req[r].session = "open")
  /\ [][\A r \in Reqs :
          req'[r].kind = "compare" =>
            /\ req'[r].pc # req[r].pc => req'[r].pc \in StagesAfter(req[r].pc)
            /\ (req[r].status = 0 /\ req'[r].status = 200) =>
                 /\ req[r].pc = "resizeScreenshot"
                 /\ req'[r].result[1].id \in DOMAIN resultsStore'
                 /\ resultsStore'[req'[r].result[1].id] = req'[r].result[1]
          ]_vars

\* a comparison has gone through every stage and released its session while
\* another request is using its own
C15_Witness ==
  \E r \in Reqs, o \in Reqs :
    /\ req[r].kind = "compare" /\ req[r].status = 200
    /\ req[r].auth /\ Len(req[r].nav) = 2
    /\ req[r].session = "closeAsked"
    /\ req[o].session = "open"

\* the request r completes successfully in this step
Succeeds(r) ==
  req[r].kind = "compare" /\ req[r].status = 0 /\ req'[r].status = 200

C17_IndependentEntries ==
  /\ [](\A e \in Issued :
         e.id \in DOMAIN resultsStore => resultsStore[e.id] = e)
  /\ [][ /\ \A i \in DOMAIN resultsStore :
              /\ i \in DOMAIN resultsStore' => resultsStore'[i] = resultsStore[i]
              /\ i \notin DOMAIN resultsStore' => sweptAt' # sweptAt
         /\ \A e \in Issued :
              (GetResult(e.id) /\ e.id \in DOMAIN resultsStore) =>
                (getResp'.status = 200 /\ getResp'.comparison = e.comparison)
       ]_vars

\* no other comparison was given the id of the result e
Unshared(e) == \A f \in Issued : f.id = e.id => f = e

\* C17 as amended: the same of every comparison whose id no other comparison
\* drew: while its id is in the store the entry under it is its result and a
\* lookup by its id returns that result; an entry changes only when a
\* succeeding comparison stores under that very id; only a sweep removes one.
C17_IndependentWhileIdsDiffer ==
  /\ [](\A e \in Issued :
         (Unshared(e) /\ e.id \in DOMAIN resultsStore) =>
           resultsStore[e.id] = e)
  /\ [][ /\ \A i \in DOMAIN resultsStore :
              /\ (i \in DOMAIN resultsStore' /\ resultsStore'[i] # resultsStore[i])
                   => \E r \in Reqs : Succeeds(r) /\ req'[r].result[1].id = i
              /\ i \notin DOMAIN resultsStore' => sweptAt' # sweptAt
         /\ \A e \in Issued :
              (Unshared(e) /\ GetResult(e.id) /\ e.id \in DOMAIN resultsStore) =>
                (getResp'.status = 200 /\ getResp'.comparison = e.comparison)
       ]_vars

\* two comparisons that finished in the same millisecond hold an entry each,
\* and a lookup has returned the result of one of them
C17_Witness ==
  \E e \in Issued, f \in Issued :
    /\ e.id # f.id /\ e.timestamp = f.timestamp
    /\ e.id \in DOMAIN resultsStore /\ resultsStore[e.id] = e
    /\ f.id \in DOMAIN resultsStore /\ resultsStore[f.id] = f
    /\ getResp.status = 200 /\ getResp.comparison = e.comparison

\* C18: when a /api/compare request carries credentials (a username and a
\* password) they are attached to the page before the first navigation and
\* are still attached at the fallback navigation; when it carries none, no
\* authenticate step occurs.
C18_CredentialsBeforeNavigation ==
  /\ [](\A r \in Reqs :
         req[r].kind = "compare" =>
           /\ (req[r].pc \in {"goto", "gotoLoad"} \/ req[r].nav # <<>>) =>
                req[r].authed = req[r].auth
           /\ ~req[r].auth =>
                (~req[r].authed /\ req[r].pc # "authenticate"))
  /\ [][\A r \in Reqs : req[r].authed => req'[r].authed]_vars

\* a comparison with credentials is at its fallback navigation
C18_Witness ==
  \E r \in Reqs :
    /\ req[r].kind = "compare"
    /\ req[r].auth /\ req[r].authed
    /\ req[r].pc = "gotoLoad"
    /\ Len(req[r].nav) = 1

(***************************************************************************)
(* Claims checked under SpecImage and SpecCell.                            *)
(***************************************************************************)
\* JavaScript's a >= b on numbers: false when either is NaN
JsAtLeast(a, b) == a # NaN /\ b # NaN /\ a >= b

\* whether the pixel (px, py) lies in the region's box
InBox(region, px, py) ==
  /\ region.x <= px /\ px < region.x + region.width
  /\ region.y <= py /\ py < region.y + region.height

\* the place of a position label in the grid scan, 1 .. 16
ScanIndex(position) ==
  CHOOSE k \in 1 .. gridSize * gridSize :
    getRegionName((k - 1) % gridSize, (k - 1) \div gridSize) = position

\* the regions either specification has produced
RegionsSeen ==
  {img.regions[k] : k \in DOMAIN img.regions} \cup
  {cell.region[k] : k \in DOMAIN cell.region}

\* C4: for every width and height >= 1 the 16 boxes analyzeRegions returns
\* partition the image: every pixel lies in exactly one box, and the areas
\* add up to width * height.
C4_BoxesPartitionImage ==
  img.pc = "done" =>
    /\ Len(img.regions) = gridSize * gridSize
    /\ \A px \in 0 .. img.width - 1, py \in 0 .. img.height - 1 :
         Cardinality({k \in DOMAIN img.regions :
                        InBox(img.regions[k], px, py)}) = 1

\* C7: for every width and height >= 1, analyzeRegions of a diff buffer with
\* no marked pixel returns 16 regions, each with diffPixels 0, diffPercent
\* 0.0 and severity none.
C7_EmptyDiffAllNone ==
  ( /\ img.pc = "done"
    /\ \A i \in DOMAIN img.diff : ~IsMarked(img.diff, i) )
  => /\ Len(img.regions) = gridSize * gridSize
     /\ \A k \in DOMAIN img.regions :
          /\ img.regions[k].diffPixels = 0
          /\ img.regions[k].diffPercent = 0
          /\ img.regions[k].severity = "none"

\* C8: a region's severity follows from the diffPercent reported with it:
\* below 1 none, from 1 below 5 low, from 5 below 15 medium, from 15 high
\* (diffPercent in tenths: 10, 50, 150).
C8_SeverityThresholds ==
  \A r \in RegionsSeen :
    /\ JsLess(r.diffPercent, 10) => r.severity = "none"
    /\ (JsAtLeast(r.diffPercent, 10) /\ JsLess(r.diffPercent, 50)) =>
         r.severity = "low"
    /\ (JsAtLeast(r.diffPercent, 50) /\ JsLess(r.diffPercent, 150)) =>
         r.severity = "medium"
    /\ JsAtLeast(r.diffPercent, 150) => r.severity = "high"

\* a cell of 100 pixels with one marked: diffPercent exactly 1.0, severity low
C8_Witness ==
  /\ cell.pc = "pushed"
  /\ cell.cellPixels = 100
  /\ cell.diffCount = 1
  /\ cell.region[1].diffPercent = 10
  /\ cell.region[1].severity = "low"

\* C9: the list analyzeRegions returns is in descending order of diffPercent
\* (each region's diffPercent is >= the next one's), and regions of equal
\* diffPercent are in grid-scan order.
C9_SortedDescendingStable ==
  img.pc = "done" =>
    /\ \A k \in 1 .. Len(img.regions) - 1 :
         JsAtLeast(img.regions[k].diffPercent, img.regions[k + 1].diffPercent)
    /\ \A i \in DOMAIN img.regions, j \in DOMAIN img.regions :
         (i < j /\ img.regions[i].diffPercent = img.regions[j].diffPercent) =>
           ScanIndex(img.regions[i].position) < ScanIndex(img.regions[j].position)

\* C10: when every pixel is mismatched, matchPercentage is 0.0, all 16
\* regions have severity high and diffPercent 100.0, and the region whose box
\* starts at (0, 0) is labelled "Top Left" and comes first; the region of grid
\* row r and column c carries the r-th vertical and the c-th horizontal name.
C10_AllMismatched ==
  ( /\ img.pc = "done"
    /\ img.mismatchedPixels = img.width * img.height )
  => /\ img.stats[1].matchPercentage = 0
     /\ Len(img.regions) = gridSize * gridSize
     /\ \A k \in DOMAIN img.regions :
          /\ img.regions[k].severity = "high"
          /\ img.regions[k].diffPercent = 1000
          /\ (img.regions[k].x = 0 /\ img.regions[k].y = 0) =>
               (k = 1 /\ img.regions[k].position = "Top Left")
          /\ \E gx \in 0 .. gridSize - 1, gy \in 0 .. gridSize - 1 :
               /\ img.regions[k].x = gx * cellWidth(img.width)
               /\ img.regions[k].y = gy * cellHeight(img.height)
               /\ img.regions[k].position = getRegionName(gx, gy)
     /\ img.regions[1].x = 0 /\ img.regions[1].y = 0

\* the sum of diffPixels over the first n regions
RECURSIVE SumDiffPixels(_, _)
SumDiffPixels(regions, n) ==
  IF n = 0 THEN 0
  ELSE SumDiffPixels(regions, n - 1) + regions[n].diffPixels

\* C19: in every result the diffPixels of the 16 regions add up to
\* stats.mismatchedPixels: every pixel the diff marked red is counted in
\* exactly one region, for every width and height.
C19_RegionsCountEveryMismatch ==
  img.pc = "done" =>
    SumDiffPixels(img.regions, Len(img.regions)) = img.stats[1].mismatchedPixels

\* the same, for the images the grid covers whole
RegionsCountEveryMismatchOnMultiplesOfFour ==
  (img.width % gridSize = 0 /\ img.height % gridSize = 0) =>
    C19_RegionsCountEveryMismatch

(***************************************************************************)
(* What does hold of analyzeRegions when no cell is empty, that is from    *)
(* 4 x 4 pixels on.                                                        *)
(***************************************************************************)
CellsNonEmpty == img.width >= gridSize /\ img.height >= gridSize

\* the boxes never overlap and cover exactly the leading
\* 4 * cellWidth by 4 * cellHeight pixels
BoxesCoverLeadingPixels ==
  img.pc = "done" =>
    \A px \in 0 .. img.width - 1, py \in 0 .. img.height - 1 :
      Cardinality({k \in DOMAIN img.regions : InBox(img.regions[k], px, py)})
        = IF px < gridSize * cellWidth(img.width) /\
             py < gridSize * cellHeight(img.height) THEN 1 ELSE 0

EmptyDiffAllNoneFromFour == CellsNonEmpty => C7_EmptyDiffAllNone
SortedDescendingStableFromFour == CellsNonEmpty => C9_SortedDescendingStable
AllMismatchedFromFour == CellsNonEmpty => C10_AllMismatched

(***************************************************************************)
(* Claims checked under SpecView.                                          *)
(***************************************************************************)
\* C11: whatever width and height the request carries, the viewport handed
\* to page.setViewport has width <= 3840 and height <= 15000 and is the
\* clamped one, as is the height the capture mode is decided from; an absent,
\* non-numeric or zero field gives 1920 (width) and 1080 (height).
C11_ViewportClamped ==
  /\ view.applied # <<>> =>
       /\ view.applied[1].width <= MaxViewportWidth
       /\ view.applied[1].height <= MaxViewportHeight
       /\ ParseInt(view.width) \in {<<>>, <<0>>} =>
            view.applied[1].width = DefaultWidth
       /\ ParseInt(view.height) \in {<<>>, <<0>>} =>
            view.applied[1].height = DefaultHeight
  /\ view.isFullPage # <<>> =>
       /\ view.applied # <<>>
       /\ view.applied[1].height <= MaxViewportHeight
       /\ view.isFullPage[1] = (view.applied[1].height > FullPageThreshold)

\* a request for 99999 x 99999 pixels, applied as 3840 x 15000
C11_Witness ==
  /\ view.width = <<"9", "9", "9", "9", "9">>
  /\ view.height = <<"9", "9", "9", "9", "9">>
  /\ view.applied = <<[width |-> MaxViewportWidth, height |-> MaxViewportHeight]>>
  /\ view.isFullPage = <<TRUE>>

\* C14: the capture is a full-page one exactly when the clamped requested
\* height exceeds 2000; the comparison dimensions are the screenshot's own
\* when the capture was a full-page one and the clamped requested viewport
\* otherwise, whatever the size of the design image; stats.viewport and
\* stats.isFullPage report those dimensions and that mode.
C14_CaptureModeAndDimensions ==
  LET requested ==
        [ width  |-> Min(OrDefault(ParseInt(view.width), DefaultWidth),
                         MaxViewportWidth),
          height |-> Min(OrDefault(ParseInt(view.height), DefaultHeight),
                         MaxViewportHeight) ]
  IN /\ view.isFullPage # <<>> =>
          view.isFullPage[1] = (requested.height > FullPageThreshold)
     /\ view.compare # <<>> =>
          view.compare[1] = IF requested.height > FullPageThreshold
                              THEN view.actual[1] ELSE requested
     /\ view.stats # <<>> =>
          /\ view.stats[1].viewport = view.compare[1]
          /\ view.stats[1].isFullPage = view.isFullPage[1]

\* a 2001-pixel-high request: a full-page capture of a page larger than the
\* viewport, compared at the screenshot's size, not at the design's
C14_Witness ==
  /\ view.pc = "done"
  /\ view.height = <<"2", "0", "0", "1">>
  /\ view.stats[1].isFullPage
  /\ view.actual[1].height = 2002
  /\ view.stats[1].viewport = view.actual[1]
  /\ view.stats[1].viewport # view.design[1]
  /\ view.stats[1].viewport.height # view.viewportHeight

\* a request for a height of exactly 2000 gives a viewport capture
ViewportCaptureAtThreshold ==
  (view.isFullPage # <<>> /\ view.height = <<"2", "0", "0", "0">>) =>
    view.isFullPage = <<FALSE>>

(***************************************************************************)
(* Claims checked under SpecError.                                         *)
(***************************************************************************)
\* the classes of failure the response has a text of its own for
FriendlyText(class) ==
  CASE class = "dns" -> <<"Could not resolve domain. Please check the URL.">>
    [] class = "refused" -> <<"Connection refused. The server may be down.">>
    [] class = "timedOut" ->
         <<"Connection timed out. The server is too slow to respond.">>
    [] class = "navTimeout" ->
         <<"Page took too long to load. Try a simpler page or check your connection.">>
    [] class = "certificate" ->
         <<"SSL certificate error. The site may have an invalid certificate.">>
    [] class = "unauthorized" ->
         <<"Authentication failed. Please check username and password.">>
    [] OTHER -> <<>>

\* C13: in the 500 response of /api/compare only a failure of the DNS,
\* refused, timed-out, navigation-timeout, certificate or unauthorized class
\* has its message replaced, by the text of its class; a failure of any other
\* kind is reported with its message unmodified.
C13_OnlyNamedClassesReplaced ==
  fault.pc = "done" =>
    /\ fault.error[1] # fault.message =>
         (fault.class # "other" /\ fault.error[1] = FriendlyText(fault.class))
    /\ fault.class = "other" => fault.error[1] = fault.message

\* failures the catch block does not mistake: they pass through unmodified
\* when no marker occurs in the message
PassThroughWithoutMarker ==
  ( /\ fault.pc = "done"
    /\ fault.class = "other"
    /\ ~Includes(fault.message, "401")
    /\ ~Includes(fault.message, "Unauthorized") )
  => fault.error[1] = fault.message

(***************************************************************************)
(* Claims checked under SpecStats.                                         *)
(***************************************************************************)
\* C20 as stated: in every result, matchPercentage is 100.00 only when mismatchedPixels
\* is 0, and diffPercentage is 0.00 only when mismatchedPixels is 0: a result
\* that reports a perfect match hides no mismatched pixel.
C20_PerfectMatchHidesNothing ==
  tally.pc = "done" =>
    /\ tally.stats[1].matchPercentage = 10000 =>
         tally.stats[1].mismatchedPixels = 0
    /\ tally.stats[1].diffPercentage = 0 =>
         tally.stats[1].mismatchedPixels = 0

\* C20 as amended: matchPercentage is 100.00, and diffPercentage 0.00, only
\* when at most one pixel in 20000 is mismatched (the percentages are rounded
\* to two decimals), and always when fewer are.
C20_PerfectMatchWithinRounding ==
  tally.pc = "done" =>
    /\ tally.stats[1].matchPercentage = 10000 =>
         20000 * tally.stats[1].mismatchedPixels <= tally.stats[1].totalPixels
    /\ tally.stats[1].diffPercentage = 0 =>
         20000 * tally.stats[1].mismatchedPixels <= tally.stats[1].totalPixels
    /\ 20000 * tally.stats[1].mismatchedPixels < tally.stats[1].totalPixels =>
         tally.stats[1].matchPercentage = 10000

\* a comparison of 201 x 100 pixels with one mismatched pixel reports 100.00
C20_Witness ==
  /\ tally.pc = "done"
  /\ tally.stats[1].totalPixels = 20100
  /\ tally.stats[1].mismatchedPixels = 1
  /\ tally.stats[1].matchPercentage = 10000
  /\ tally.stats[1].diffPercentage = 0

====
